---------------------------- MODULE Spec2Model ----------------------------
(***************************************************************************)
(* Signal speed estimates of JAX-FLUIDS' Riemann solvers                   *)
(* (src/jaxfluids/solvers/riemann_solvers/signal_speeds.py).               *)
(*                                                                         *)
(* The functions are pure, elementwise array arithmetic.  One array        *)
(* element is modelled.  A float is modelled as an extended real: NaN,     *)
(* +Inf, -Inf, or an exact finite number.  Finite numbers are elements of  *)
(* a multiquadratic field, q1*sqrt(m1) + ... + qk*sqrt(mk) with rational   *)
(* q and squarefree m, so that jnp.sqrt of a rational is exact.  Rounding  *)
(* and overflow of the floats are not modelled, and zero carries no sign   *)
(* (x / 0 is taken as x / +0).                                             *)
(***************************************************************************)
EXTENDS Integers, FiniteSets, Sequences

-----------------------------------------------------------------------------
(* The arithmetic is one recursive evaluator, Calc(op, x, y), and a named  *)
(* operator for each operation.                                            *)
(*   Rationals: <<n, d>>, d > 0, in lowest terms.                          *)
(*   Finite numbers: a function from squarefree radicands m >= 1 to        *)
(*   nonzero rational coefficients, standing for the sum of                *)
(*   coef[m] * sqrt(m).                                                    *)
(*   Floats: [k |-> "fin", s |-> 0, v |-> finite number], NaN, +Inf, -Inf. *)

RECURSIVE Calc(_, _, _)

IAbs(n) ==
    IF n < 0 THEN -n ELSE n

ISign(n) ==
    IF n < 0 THEN -1 ELSE IF n > 0 THEN 1 ELSE 0

GCD(a, b) ==
    Calc("GCD", a, b)

Q(n, d) ==
    Calc("Q", n, d)

QAdd(x, y) ==
    Calc("QAdd", x, y)

QMul(x, y) ==
    Calc("QMul", x, y)

QNeg(x) ==
    <<-x[1], x[2]>>

MZero ==
    [m \in {} |-> <<0, 1>>]

MRat(q) ==
    IF q[1] = 0 THEN MZero ELSE [m \in {1} |-> q]

MCoef(x, m) ==
    IF m \in DOMAIN x THEN x[m] ELSE <<0, 1>>

MTrim(x) ==
    [m \in {k \in DOMAIN x : x[k][1] # 0} |-> x[m]]

MIsRat(x) ==
    DOMAIN x \subseteq {1}

MNeg(x) ==
    [m \in DOMAIN x |-> QNeg(x[m])]

MAdd(x, y) ==
    Calc("MAdd", x, y)

MMul(x, y) ==
    Calc("MMul", x, y)

(* sqrt(i) * sqrt(j) = g * sqrt(i*j / g^2), g = gcd(i, j), i and j squarefree *)
MRad(i, j) ==
    Calc("MRad", i, j)

(* the sum over the pairs <<i, j>> of pairs[2] of x[i] * y[j] * gcd(i, j),  *)
(* x = pairs[1][1], y = pairs[1][2], added to acc                           *)
QSum(pairs, acc) ==
    Calc("QSum", pairs, acc)

(* The smallest prime under a radical of x (x not rational).               *)
MPrime(x) ==
    LET big == CHOOSE m \in DOMAIN x : \A k \in DOMAIN x : k <= m
    IN  CHOOSE p \in 2..big :
            /\ \E m \in DOMAIN x : m % p = 0
            /\ \A r \in 2..(p - 1) : \A m \in DOMAIN x : m % r # 0

(* x = MLow(x, p) + sqrt(p) * MHigh(x, p), neither part with p under a radical *)
MLow(x, p) ==
    [m \in {k \in DOMAIN x : k % p # 0} |-> x[m]]

MHigh(x, p) ==
    [m \in {k \div p : k \in {j \in DOMAIN x : j % p = 0}} |-> x[m * p]]

MSqrtOf(p) ==
    [m \in {p} |-> <<1, 1>>]

(* (P + sqrt(p) Q) * (P - sqrt(p) Q) = P^2 - p Q^2                          *)
MConj(x, p) ==
    MAdd(MLow(x, p), MNeg(MMul(MSqrtOf(p), MHigh(x, p))))

MNorm(x, p) ==
    MMul(x, MConj(x, p))

(* gcd of the numerators and lcm of the denominators of the coefficients  *)
(* of x at the radicands in S                                               *)
MGcdNum(x, S) ==
    Calc("MGcdNum", x, S)

MLcmDen(x, S) ==
    Calc("MLcmDen", x, S)

(* x divided by its content MGcdNum / MLcmDen: coprime integer coefficients; *)
(* the sign is that of x                                                    *)
MPrim(x) ==
    LET g == MGcdNum(x, DOMAIN x)
        l == MLcmDen(x, DOMAIN x)
    IN  [m \in DOMAIN x |-> <<(x[m][1] \div g) * (l \div x[m][2]), 1>>]

MSign(x) ==
    Calc("MSign", x, 0)

MInv(x) ==
    Calc("MInv", x, 0)

(* the largest k with k^2 dividing n, searched from k upwards, n > 0       *)
MSquare(n, k) ==
    Calc("MSquare", n, k)

(* sqrt of a rational q > 0: sqrt(n/d) = (kn / (kd * md)) * sqrt(mn * md),  *)
(* where n = kn^2 * mn and d = kd^2 * md                                    *)
MSqrt(q) ==
    Calc("MSqrt", q, 0)

Fin(x) ==
    [k |-> "fin", s |-> 0, v |-> x]

NaN ==
    [k |-> "nan", s |-> 0, v |-> MZero]

Inf(sgn) ==
    [k |-> "inf", s |-> sgn, v |-> MZero]

R(n, d) ==
    Fin(MRat(Q(n, d)))

IsNaN(x) ==
    x.k = "nan"

IsFinite(x) ==
    x.k = "fin"

(* sign of a float that is not NaN                                          *)
FSign(x) ==
    IF x.k = "inf" THEN x.s ELSE MSign(x.v)

FNeg(x) ==
    CASE x.k = "nan" -> NaN
      [] x.k = "inf" -> Inf(-x.s)
      [] OTHER -> Fin(MNeg(x.v))

FAdd(x, y) ==
    Calc("FAdd", x, y)

FSub(x, y) ==
    FAdd(x, FNeg(y))

FMul(x, y) ==
    Calc("FMul", x, y)

FDiv(x, y) ==
    Calc("FDiv", x, y)

(* jnp.sqrt; the radicands of this module are rational                      *)
FSqrt(x) ==
    Calc("FSqrt", x, 0)

(* jnp.abs                                                                  *)
FAbs(x) ==
    Calc("FAbs", x, 0)

(* comparisons are FALSE when an operand is NaN                             *)
FLe(x, y) ==
    Calc("FLe", x, y)

FLt(x, y) ==
    Calc("FLt", x, y)

FGt(x, y) ==
    FLt(y, x)

FGe(x, y) ==
    FLe(y, x)

(* jnp.maximum / jnp.minimum: NaN if an operand is NaN                      *)
FMax(x, y) ==
    Calc("FMax", x, y)

FMin(x, y) ==
    Calc("FMin", x, y)

(* a boolean mask used as a number: True is 1, False is 0                   *)
FMask(b) ==
    IF b THEN Fin(MRat(<<1, 1>>)) ELSE Fin(MZero)

Calc(op, x, y) ==
    CASE op = "GCD" -> IF y = 0 THEN x ELSE GCD(y, x % y)
      [] op = "Q" ->
            LET g == GCD(IAbs(x), IAbs(y))
                s == IF y < 0 THEN -1 ELSE 1
            IN  <<(s * x) \div g, (s * y) \div g>>
      [] op = "QAdd" ->
            LET g == GCD(x[2], y[2])
            IN  Q(x[1] * (y[2] \div g) + y[1] * (x[2] \div g), (x[2] \div g) * y[2])
      [] op = "QMul" ->
            LET g1 == GCD(IAbs(x[1]), y[2])
                g2 == GCD(IAbs(y[1]), x[2])
            IN  IF x[1] = 0 \/ y[1] = 0 THEN <<0, 1>>
                ELSE <<(x[1] \div g1) * (y[1] \div g2), (x[2] \div g2) * (y[2] \div g1)>>
      [] op = "MAdd" ->
            IF MIsRat(x) /\ MIsRat(y) THEN MRat(QAdd(MCoef(x, 1), MCoef(y, 1)))
            ELSE MTrim([m \in DOMAIN x \cup DOMAIN y |-> QAdd(MCoef(x, m), MCoef(y, m))])
      [] op = "MRad" -> (x \div GCD(x, y)) * (y \div GCD(x, y))
      [] op = "QSum" ->
            IF x[2] = {} THEN y
            ELSE LET pr == CHOOSE e \in x[2] : TRUE
                     t == QMul(QMul(x[1][1][pr[1]], x[1][2][pr[2]]), <<GCD(pr[1], pr[2]), 1>>)
                 IN  QSum(<<x[1], x[2] \ {pr}>>, QAdd(y, t))
      [] op = "MMul" ->
            IF MIsRat(x) /\ MIsRat(y) THEN MRat(QMul(MCoef(x, 1), MCoef(y, 1)))
            ELSE LET pairs == (DOMAIN x) \X (DOMAIN y)
                     rads == {MRad(pr[1], pr[2]) : pr \in pairs}
                 IN  MTrim([m \in rads |->
                        QSum(<<<<x, y>>, {pr \in pairs : MRad(pr[1], pr[2]) = m}>>, <<0, 1>>)])
      [] op = "MGcdNum" ->
            IF y = {} THEN 0
            ELSE LET m == CHOOSE k \in y : TRUE
                 IN  GCD(IAbs(x[m][1]), MGcdNum(x, y \ {m}))
      [] op = "MLcmDen" ->
            IF y = {} THEN 1
            ELSE LET m == CHOOSE k \in y : TRUE
                     l == MLcmDen(x, y \ {m})
                 IN  (l \div GCD(l, x[m][2])) * x[m][2]
      [] op = "MSign" ->
            IF MIsRat(x) THEN ISign(MCoef(x, 1)[1])
            ELSE LET z == MPrim(x)
                     p == MPrime(z)
                     sP == MSign(MLow(z, p))
                     sQ == MSign(MHigh(z, p))
                 IN  IF sQ = 0 \/ sP = sQ THEN sP
                     ELSE IF sP = 0 THEN sQ
                     ELSE sP * MSign(MNorm(z, p))
      [] op = "MInv" ->
            IF MIsRat(x) THEN MRat(Q(x[1][2], x[1][1]))
            ELSE LET z == MPrim(x)
                     p == MPrime(z)
                     c == Q(MLcmDen(x, DOMAIN x), MGcdNum(x, DOMAIN x))
                 IN  IF MLow(z, p) = MZero
                     THEN MMul(MRat(QMul(c, <<1, p>>)),
                               MMul(MSqrtOf(p), MInv(MHigh(z, p))))
                     ELSE MMul(MRat(c), MMul(MConj(z, p), MInv(MNorm(z, p))))
      [] op = "MSquare" ->
            IF y > x \div y THEN 1
            ELSE IF x % (y * y) = 0 THEN y * MSquare(x \div (y * y), y)
            ELSE MSquare(x, y + 1)
      [] op = "MSqrt" ->
            LET kn == MSquare(x[1], 2)
                kd == MSquare(x[2], 2)
                mn == x[1] \div (kn * kn)
                md == x[2] \div (kd * kd)
            IN  [m \in {mn * md} |-> Q(kn, kd * md)]
      [] op = "FAdd" ->
            (CASE x.k = "nan" \/ y.k = "nan" -> NaN
               [] x.k = "inf" /\ y.k = "inf" -> IF x.s = y.s THEN x ELSE NaN
               [] x.k = "inf" -> x
               [] y.k = "inf" -> y
               [] OTHER -> Fin(MAdd(x.v, y.v)))
      [] op = "FMul" ->
            (CASE x.k = "nan" \/ y.k = "nan" -> NaN
               [] x.k = "inf" \/ y.k = "inf" ->
                     IF FSign(x) * FSign(y) = 0 THEN NaN ELSE Inf(FSign(x) * FSign(y))
               [] OTHER -> Fin(MMul(x.v, y.v)))
      [] op = "FDiv" ->
            (CASE x.k = "nan" \/ y.k = "nan" -> NaN
               [] x.k = "inf" /\ y.k = "inf" -> NaN
               [] x.k = "inf" -> Inf(IF FSign(y) < 0 THEN -x.s ELSE x.s)
               [] y.k = "inf" -> Fin(MZero)
               [] y.v = MZero -> IF x.v = MZero THEN NaN ELSE Inf(MSign(x.v))
               [] OTHER -> Fin(MMul(x.v, MInv(y.v))))
      [] op = "FSqrt" ->
            (CASE x.k = "nan" -> NaN
               [] x.k = "inf" -> IF x.s > 0 THEN x ELSE NaN
               [] x.v = MZero -> x
               [] MIsRat(x.v) -> IF x.v[1][1] < 0 THEN NaN ELSE Fin(MSqrt(x.v[1])))
      [] op = "FAbs" ->
            (CASE x.k = "nan" -> NaN
               [] x.k = "inf" -> Inf(1)
               [] OTHER -> IF MSign(x.v) < 0 THEN Fin(MNeg(x.v)) ELSE x)
      [] op = "FLe" ->
            /\ x.k # "nan"
            /\ y.k # "nan"
            /\ \/ x = y
               \/ FSign(FSub(x, y)) < 0
      [] op = "FLt" ->
            /\ x.k # "nan"
            /\ y.k # "nan"
            /\ x # y
            /\ FSign(FSub(x, y)) < 0
      [] op = "FMax" ->
            IF x.k = "nan" \/ y.k = "nan" THEN NaN ELSE IF FLe(x, y) THEN y ELSE x
      [] op = "FMin" ->
            IF x.k = "nan" \/ y.k = "nan" THEN NaN ELSE IF FLe(x, y) THEN x ELSE y

-----------------------------------------------------------------------------
(* signal_speeds.py                                                        *)

Half ==
    R(1, 2)

One ==
    R(1, 1)

Zero ==
    R(0, 1)

(* Faulty variant: the velocity-jump term without its factor 0.5           *)
estimate_pressure_pvrs_unscaled(uL, uR, aL, aR, rhoL, rhoR, pL, pR) ==
    LET rho_bar == FMul(Half, FAdd(rhoL, rhoR))
        a_bar == FMul(Half, FAdd(aL, aR))
    IN  FSub(FMul(Half, FAdd(pL, pR)),
             FMul(FMul(FSub(uR, uL), rho_bar), a_bar))

(* rho_bar, a_bar and the unclamped p_pvrs of estimate_pressure             *)
estimate_pressure_pvrs(uL, uR, aL, aR, rhoL, rhoR, pL, pR) ==
    LET rho_bar == FMul(Half, FAdd(rhoL, rhoR))
        a_bar == FMul(Half, FAdd(aL, aR))
    IN  FSub(FMul(Half, FAdd(pL, pR)),
             FMul(FMul(FMul(Half, FSub(uR, uL)), rho_bar), a_bar))

(* Faulty variant: no floor at zero                                        *)
estimate_pressure_unclamped(uL, uR, aL, aR, rhoL, rhoR, pL, pR) ==
    estimate_pressure_pvrs(uL, uR, aL, aR, rhoL, rhoR, pL, pR)

estimate_pressure(uL, uR, aL, aR, rhoL, rhoR, pL, pR) ==
    FMax(Zero, estimate_pressure_pvrs(uL, uR, aL, aR, rhoL, rhoR, pL, pR))

(* Faulty variant: u_mean is the sum, not the mean                          *)
signal_speed_Arithmetic_sum(uL, uR, aL, aR) ==
    LET u_mean == FAdd(uL, uR)
        a_mean == FMul(Half, FAdd(aL, aR))
    IN  <<FMin(FSub(u_mean, a_mean), FSub(uL, aL)),
          FMax(FAdd(u_mean, a_mean), FAdd(uR, aR))>>

signal_speed_Arithmetic(uL, uR, aL, aR) ==
    LET u_mean == FMul(Half, FAdd(uL, uR))
        a_mean == FMul(Half, FAdd(aL, aR))
    IN  <<FMin(FSub(u_mean, a_mean), FSub(uL, aL)),
          FMax(FAdd(u_mean, a_mean), FAdd(uR, aR))>>

(* Faulty variant: the velocities without jnp.abs                           *)
signal_speed_Rusanov_signed(uL, uR, aL, aR) ==
    LET S_plus == FMax(FAdd(uL, aL), FAdd(uR, aR))
    IN  <<FNeg(S_plus), S_plus>>

signal_speed_Rusanov(uL, uR, aL, aR) ==
    LET S_plus == FMax(FAdd(FAbs(uL), aL), FAdd(FAbs(uR), aR))
    IN  <<FNeg(S_plus), S_plus>>

signal_speed_Davis(uL, uR, aL, aR) ==
    <<FMin(FSub(uL, aL), FSub(uR, aR)),
      FMax(FAdd(uL, aL), FAdd(uR, aR))>>

(* the radicand (gamma - 1) * (H_Roe - 0.5 * u_Roe * u_Roe) of a_Roe        *)
Davis_2_radicand(uL, uR, rhoL, rhoR, HL, HR, g) ==
    LET one_dens == FDiv(One, FAdd(FSqrt(rhoL), FSqrt(rhoR)))
        u_Roe == FMul(FAdd(FMul(FSqrt(rhoL), uL), FMul(FSqrt(rhoR), uR)), one_dens)
        H_Roe == FMul(FAdd(FMul(FSqrt(rhoL), HL), FMul(FSqrt(rhoR), HR)), one_dens)
    IN  FMul(FSub(g, One), FSub(H_Roe, FMul(FMul(Half, u_Roe), u_Roe)))

signal_speed_Davis_2(uL, uR, aL, aR, rhoL, rhoR, HL, HR, g) ==
    LET one_dens == FDiv(One, FAdd(FSqrt(rhoL), FSqrt(rhoR)))
        u_Roe == FMul(FAdd(FMul(FSqrt(rhoL), uL), FMul(FSqrt(rhoR), uR)), one_dens)
        a_Roe == FSqrt(Davis_2_radicand(uL, uR, rhoL, rhoR, HL, HR, g))
    IN  <<FSub(u_Roe, a_Roe), FAdd(u_Roe, a_Roe)>>

(* Faulty variant: the velocity-jump correction subtracted                  *)
Einfeldt_radicand_minus(uL, uR, aL, aR, rhoL, rhoR) ==
    LET one_dens == FDiv(One, FAdd(FSqrt(rhoL), FSqrt(rhoR)))
        eta2 == FMul(FMul(FMul(FMul(Half, FSqrt(rhoL)), FSqrt(rhoR)), one_dens), one_dens)
    IN  FSub(FMul(FAdd(FMul(FMul(FSqrt(rhoL), aL), aL),
                       FMul(FMul(FSqrt(rhoR), aR), aR)), one_dens),
             FMul(FMul(eta2, FSub(uR, uL)), FSub(uR, uL)))

(* the quantity under the square root of d_bar                              *)
Einfeldt_radicand(uL, uR, aL, aR, rhoL, rhoR) ==
    LET one_dens == FDiv(One, FAdd(FSqrt(rhoL), FSqrt(rhoR)))
        eta2 == FMul(FMul(FMul(FMul(Half, FSqrt(rhoL)), FSqrt(rhoR)), one_dens), one_dens)
    IN  FAdd(FMul(FAdd(FMul(FMul(FSqrt(rhoL), aL), aL),
                       FMul(FMul(FSqrt(rhoR), aR), aR)), one_dens),
             FMul(FMul(eta2, FSub(uR, uL)), FSub(uR, uL)))

(* Faulty variant: S_L and S_R exchanged                                    *)
signal_speed_Einfeldt_swapped(uL, uR, aL, aR, rhoL, rhoR) ==
    LET one_dens == FDiv(One, FAdd(FSqrt(rhoL), FSqrt(rhoR)))
        u_bar == FMul(FAdd(FMul(FSqrt(rhoL), uL), FMul(FSqrt(rhoR), uR)), one_dens)
        d_bar == FSqrt(Einfeldt_radicand(uL, uR, aL, aR, rhoL, rhoR))
    IN  <<FAdd(u_bar, d_bar), FSub(u_bar, d_bar)>>

signal_speed_Einfeldt(uL, uR, aL, aR, rhoL, rhoR) ==
    LET one_dens == FDiv(One, FAdd(FSqrt(rhoL), FSqrt(rhoR)))
        u_bar == FMul(FAdd(FMul(FSqrt(rhoL), uL), FMul(FSqrt(rhoR), uR)), one_dens)
        d_bar == FSqrt(Einfeldt_radicand(uL, uR, aL, aR, rhoL, rhoR))
    IN  <<FSub(u_bar, d_bar), FAdd(u_bar, d_bar)>>

(* Faulty variant: the q = 1 branch selected by p_star < p_side             *)
Toro_q_strict(pstar, pside, g) ==
    LET gamma_ == FDiv(FMul(FAdd(g, One), Half), g)
    IN  FAdd(FMul(One, FMask(FLt(pstar, pside))),
             FMul(FSqrt(FAdd(One, FMul(gamma_, FSub(FDiv(pstar, pside), One)))),
                  FMask(FGt(pstar, pside))))

(* q_L or q_R: both branches are evaluated and blended by the masks         *)
Toro_q(pstar, pside, g) ==
    LET gamma_ == FDiv(FMul(FAdd(g, One), Half), g)
    IN  FAdd(FMul(One, FMask(FLe(pstar, pside))),
             FMul(FSqrt(FAdd(One, FMul(gamma_, FSub(FDiv(pstar, pside), One)))),
                  FMask(FGt(pstar, pside))))

signal_speed_Toro(uL, uR, aL, aR, rhoL, rhoR, pL, pR, g) ==
    LET pstar == estimate_pressure(uL, uR, aL, aR, rhoL, rhoR, pL, pR)
        q_L == Toro_q(pstar, pL, g)
        q_R == Toro_q(pstar, pR, g)
    IN  <<FSub(uL, FMul(aL, q_L)), FAdd(uR, FMul(aR, q_R))>>

(* Faulty variant: the two terms of rho_deltaSU added                       *)
compute_sstar_denom_sum(uL, uR, rhoL, rhoR, SL, SR) ==
    FAdd(FMul(rhoL, FSub(SL, uL)), FMul(rhoR, FSub(SR, uR)))

(* rho_deltaSU, the denominator of S_star                                   *)
compute_sstar_denom(uL, uR, rhoL, rhoR, SL, SR) ==
    FSub(FMul(rhoL, FSub(SL, uL)), FMul(rhoR, FSub(SR, uR)))

(* Faulty variant: a zero denominator clamped to a zero result             *)
compute_sstar_clamped(uL, uR, pL, pR, rhoL, rhoR, SL, SR) ==
    LET delta_uL == FSub(SL, uL)
        delta_uR == FSub(SR, uR)
        rho_deltaSU == compute_sstar_denom(uL, uR, rhoL, rhoR, SL, SR)
    IN  IF rho_deltaSU = Zero THEN Zero
        ELSE FMul(FDiv(One, rho_deltaSU),
                  FSub(FAdd(FSub(pR, pL), FMul(FMul(rhoL, uL), delta_uL)),
                       FMul(FMul(rhoR, uR), delta_uR)))

compute_sstar(uL, uR, pL, pR, rhoL, rhoR, SL, SR) ==
    LET delta_uL == FSub(SL, uL)
        delta_uR == FSub(SR, uR)
        rho_deltaSU == compute_sstar_denom(uL, uR, rhoL, rhoR, SL, SR)
    IN  FMul(FDiv(One, rho_deltaSU),
             FSub(FAdd(FSub(pR, pL), FMul(FMul(rhoL, uL), delta_uL)),
                  FMul(FMul(rhoR, uR), delta_uR)))

-----------------------------------------------------------------------------
(* One interface evaluation.  The interface state (u, a, rho, p on both    *)
(* sides) is fixed at the start; the flux assembly calls one estimator,    *)
(* passing the variant's extra inputs H_L, H_R and gamma, and may pass its *)
(* result on to compute_sstar.  estimate_pressure may be called by itself. *)

VARIABLES u_L, u_R, a_L, a_R, rho_L, rho_R, p_L, p_R,
          H_L, H_R, gamma, est, S_L, S_R, p_star, S_star

inputs == <<u_L, u_R, a_L, a_R, rho_L, rho_R, p_L, p_R>>

extras == <<H_L, H_R, gamma>>

vars == <<inputs, extras, est, S_L, S_R, p_star, S_star>>

(* a result not computed yet, an extra input not passed                     *)
None ==
    [k |-> "none", s |-> 0, v |-> MZero]

MaxU == 2

MaxA == 2

MaxR == 2

MaxP == 2

MaxH == 1

Ints(lo, hi) ==
    {R(n, 1) : n \in lo..hi}

Velocities ==
    Ints(-MaxU, MaxU)

(* speeds of sound: positive ones, and with zero and a negative one         *)
SoundSpeeds ==
    {R(1, 1), R(MaxA, 1)}

AnySoundSpeeds ==
    {R(-1, 1), R(0, 1)} \cup SoundSpeeds

(* densities are squares, so that sqrt(rho) is rational                     *)
Densities ==
    {R(1, 1), R(MaxR * MaxR, 1)}

AnyDensities ==
    {R(-1, 1)} \cup Densities

Pressures ==
    {R(1, 1), R(MaxP, 1)}

PressuresFromZero ==
    {R(0, 1)} \cup Pressures

(* total enthalpies: one that no state has, and a positive one              *)
Enthalpies ==
    {R(-1, 1), R(MaxH, 1)}

Gammas ==
    {R(7, 5), R(2, 1)}

InitOf(U, A, D, P) ==
    /\ u_L \in U /\ u_R \in U
    /\ a_L \in A /\ a_R \in A
    /\ rho_L \in D /\ rho_R \in D
    /\ p_L \in P /\ p_R \in P
    /\ H_L = None /\ H_R = None /\ gamma = None
    /\ est = "none" /\ S_L = None /\ S_R = None
    /\ p_star = None /\ S_star = None

Estimate(name, S) ==
    /\ est = "none"
    /\ est' = name
    /\ S_L' = S[1]
    /\ S_R' = S[2]
    /\ UNCHANGED <<inputs, p_star, S_star>>

CallArithmetic ==
    /\ Estimate("Arithmetic", signal_speed_Arithmetic(u_L, u_R, a_L, a_R))
    /\ UNCHANGED extras

CallRusanov ==
    /\ Estimate("Rusanov", signal_speed_Rusanov(u_L, u_R, a_L, a_R))
    /\ UNCHANGED extras

CallDavis ==
    /\ Estimate("Davis", signal_speed_Davis(u_L, u_R, a_L, a_R))
    /\ UNCHANGED extras

CallDavis_2 ==
    \E hL \in Enthalpies, hR \in Enthalpies, g \in Gammas :
        /\ Estimate("Davis_2", signal_speed_Davis_2(u_L, u_R, a_L, a_R,
                                                    rho_L, rho_R, hL, hR, g))
        /\ H_L' = hL
        /\ H_R' = hR
        /\ gamma' = g

CallEinfeldt ==
    /\ Estimate("Einfeldt", signal_speed_Einfeldt(u_L, u_R, a_L, a_R, rho_L, rho_R))
    /\ UNCHANGED extras

CallToro ==
    \E g \in Gammas :
        /\ Estimate("Toro", signal_speed_Toro(u_L, u_R, a_L, a_R,
                                              rho_L, rho_R, p_L, p_R, g))
        /\ gamma' = g
        /\ UNCHANGED <<H_L, H_R>>

CallEstimatePressure ==
    /\ p_star = None
    /\ p_star' = estimate_pressure(u_L, u_R, a_L, a_R, rho_L, rho_R, p_L, p_R)
    /\ UNCHANGED <<inputs, extras, est, S_L, S_R, S_star>>

CallComputeSstar ==
    /\ est # "none"
    /\ S_star = None
    /\ S_star' = compute_sstar(u_L, u_R, p_L, p_R, rho_L, rho_R, S_L, S_R)
    /\ UNCHANGED <<inputs, extras, est, S_L, S_R, p_star>>

-----------------------------------------------------------------------------
(* Specifications: the same actions, each from the interface states and    *)
(* with the calls that a family of properties is about.                    *)

(* the six estimators on physically valid states: a > 0, rho > 0, p > 0     *)
InitValid ==
    InitOf(Velocities, SoundSpeeds, Densities, Pressures)

NextEstimators ==
    \/ CallArithmetic
    \/ CallRusanov
    \/ CallDavis
    \/ CallDavis_2
    \/ CallEinfeldt
    \/ CallToro

SpecEstimators ==
    InitValid /\ [][NextEstimators]_vars

(* the estimators that use u and a only, on any u and a                     *)
InitAveragingFree ==
    InitOf(Velocities, AnySoundSpeeds, {One}, {One})

NextAveragingFree ==
    \/ CallArithmetic
    \/ CallRusanov
    \/ CallDavis

SpecAveragingFree ==
    InitAveragingFree /\ [][NextAveragingFree]_vars

(* Einfeldt on any u and a, rho > 0                                         *)
InitEinfeldt ==
    InitOf(Velocities, AnySoundSpeeds, Densities, {One})

NextEinfeldt ==
    CallEinfeldt

SpecEinfeldt ==
    InitEinfeldt /\ [][NextEinfeldt]_vars

(* Toro on a >= 0, rho > 0, p >= 0                                          *)
InitToro ==
    InitOf(Velocities, {Zero, R(MaxA, 1)}, Densities, PressuresFromZero)

NextToro ==
    CallToro

SpecToro ==
    InitToro /\ [][NextToro]_vars

(* estimate_pressure on any inputs                                          *)
InitPressure ==
    InitOf(Velocities, AnySoundSpeeds, AnyDensities, PressuresFromZero)

NextPressure ==
    CallEstimatePressure

SpecPressure ==
    InitPressure /\ [][NextPressure]_vars

(* compute_sstar on speeds that the caller supplies                         *)
InitSstar ==
    /\ u_L \in Velocities /\ u_R \in Velocities
    /\ a_L = One /\ a_R = One
    /\ rho_L \in AnyDensities /\ rho_R \in AnyDensities
    /\ p_L \in Pressures /\ p_R \in Pressures
    /\ H_L = None /\ H_R = None /\ gamma = None
    /\ est = "caller" /\ S_L \in Velocities /\ S_R \in Velocities
    /\ p_star = None /\ S_star = None

NextSstar ==
    CallComputeSstar

SpecSstar ==
    InitSstar /\ [][NextSstar]_vars

(* a characteristic-based estimator, then compute_sstar on its result       *)
NextCompose ==
    \/ CallArithmetic
    \/ CallRusanov
    \/ CallDavis
    \/ CallToro
    \/ CallComputeSstar

SpecCompose ==
    InitValid /\ [][NextCompose]_vars

-----------------------------------------------------------------------------
(* Properties.                                                             *)

Two ==
    R(2, 1)

Ordered ==
    FLe(S_L, S_R)

Uniform ==
    u_L = u_R /\ a_L = a_R

(* S_L = u - a and S_R = u + a                                              *)
Characteristic ==
    S_L = FSub(u_L, a_L) /\ S_R = FAdd(u_R, a_R)

Davis_2_rad ==
    Davis_2_radicand(u_L, u_R, rho_L, rho_R, H_L, H_R, gamma)

(* C1 as stated: on a > 0, rho > 0 each of the six estimators returns      *)
(* S_L <= S_R.                                                             *)
C1_OrderedAll ==
    est # "none" => Ordered

(* C1, amended: on a > 0, rho > 0, p > 0, gamma > 1 the estimators          *)
(* Arithmetic, Rusanov, Davis and Einfeldt return S_L <= S_R; Davis_2 does  *)
(* when its radicand (gamma-1)*(H_Roe - 0.5*u_Roe^2) is >= 0; Toro does     *)
(* when u_L <= u_R.                                                         *)
C1_Ordered ==
    /\ est \in {"Arithmetic", "Rusanov", "Davis", "Einfeldt"} => Ordered
    /\ est = "Davis_2" /\ FGe(Davis_2_rad, Zero) => Ordered
    /\ est = "Toro" /\ FLe(u_L, u_R) => Ordered

C1_Witness ==
    /\ est = "Toro"
    /\ FLt(u_L, u_R)
    /\ a_L # a_R
    /\ FLt(S_L, S_R)

PvrsScaled(scale) ==
    FSub(FDiv(FAdd(p_L, p_R), Two),
         FMul(scale, FMul(FSub(u_R, u_L),
                          FMul(FDiv(FAdd(rho_L, rho_R), Two),
                               FDiv(FAdd(a_L, a_R), Two)))))

(* C3 as stated: estimate_pressure returns max(0, p_pvrs) with              *)
(* p_pvrs = (p_L+p_R)/2 - (u_R-u_L)*rho_bar*a_bar, no further factor.       *)
C3_Unscaled ==
    p_star # None => p_star = FMax(Zero, PvrsScaled(One))

(* C3, amended: estimate_pressure returns max(0, p_pvrs) with               *)
(* p_pvrs = (p_L+p_R)/2 - 0.5*(u_R-u_L)*rho_bar*a_bar.                      *)
C3_Scaled ==
    p_star # None => p_star = FMax(Zero, PvrsScaled(Half))

C3_Witness ==
    /\ p_star # None
    /\ u_L # u_R
    /\ p_star # Zero
    /\ p_star # FMax(Zero, PvrsScaled(One))

Toro_pstar ==
    estimate_pressure(u_L, u_R, a_L, a_R, rho_L, rho_R, p_L, p_R)

(* q of one side as C4 states it                                            *)
Toro_q_stated(pside) ==
    IF FLe(Toro_pstar, pside) THEN One
    ELSE FSqrt(FAdd(One, FMul(FDiv(FAdd(gamma, One), FMul(Two, gamma)),
                              FSub(FDiv(Toro_pstar, pside), One))))

(* C4: in signal_speed_Toro, on rho > 0, a >= 0, gamma > 1, p >= 0, for     *)
(* each side q is 1 when p_star <= p_side, so that S_L = u_L - a_L (S_R =   *)
(* u_R + a_R), and sqrt(1 + ((gamma+1)/(2 gamma))*(p_star/p_side - 1))      *)
(* otherwise; the unselected branch does not alter a selected q = 1.        *)
C4_ToroBranches ==
    est = "Toro" =>
        /\ Toro_q(Toro_pstar, p_L, gamma) = Toro_q_stated(p_L)
        /\ Toro_q(Toro_pstar, p_R, gamma) = Toro_q_stated(p_R)
        /\ FLe(Toro_pstar, p_L) => S_L = FSub(u_L, a_L)
        /\ FLe(Toro_pstar, p_R) => S_R = FAdd(u_R, a_R)

Sstar_denom ==
    compute_sstar_denom(u_L, u_R, rho_L, rho_R, S_L, S_R)

(* C5: when S_L = u_L and S_R = u_R the denominator of compute_sstar is     *)
(* zero and the result is infinite or NaN, not zero or another finite       *)
(* number.                                                                  *)
C5_Degenerate ==
    S_star # None /\ S_L = u_L /\ S_R = u_R =>
        /\ Sstar_denom = Zero
        /\ S_star.k \in {"inf", "nan"}

C5_Witness ==
    /\ S_star # None
    /\ S_L = u_L
    /\ S_R = u_R
    /\ p_L # p_R
    /\ S_star.k = "inf"

Pvrs ==
    estimate_pressure_pvrs(u_L, u_R, a_L, a_R, rho_L, rho_R, p_L, p_R)

(* C6: the p_star that estimate_pressure returns is >= 0; it is 0 when      *)
(* p_pvrs < 0 and p_pvrs itself when p_pvrs >= 0.                           *)
C6_Floor ==
    p_star # None =>
        /\ FGe(p_star, Zero)
        /\ FLt(Pvrs, Zero) => p_star = Zero
        /\ FGe(Pvrs, Zero) => p_star = Pvrs

C6_Witness ==
    /\ p_star = Zero
    /\ FLt(Pvrs, Zero)

(* C7: signal_speed_Rusanov returns S_R = max(|u_L| + a_L, |u_R| + a_R)     *)
(* and S_L = -S_R, so S_L + S_R = 0.                                        *)
C7_RusanovSymmetry ==
    est = "Rusanov" =>
        /\ S_L = FNeg(S_R)
        /\ FAdd(S_L, S_R) = Zero
        /\ FGe(S_R, FAdd(FAbs(u_L), a_L))
        /\ FGe(S_R, FAdd(FAbs(u_R), a_R))
        /\ S_R \in {FAdd(FAbs(u_L), a_L), FAdd(FAbs(u_R), a_R)}

C7_Witness ==
    /\ est = "Rusanov"
    /\ FLt(u_R, Zero)
    /\ S_R = FAdd(FNeg(u_R), a_R)
    /\ FGt(S_R, FAdd(FAbs(u_L), a_L))

Rusanov_here ==
    signal_speed_Rusanov(u_L, u_R, a_L, a_R)

Davis_here ==
    signal_speed_Davis(u_L, u_R, a_L, a_R)

Arithmetic_here ==
    signal_speed_Arithmetic(u_L, u_R, a_L, a_R)

(* the interval <<lo, hi>> lies in the interval out                         *)
Within(lo, hi, out) ==
    FLe(out[1], lo) /\ FLe(hi, out[2])

Einfeldt_rad ==
    Einfeldt_radicand(u_L, u_R, a_L, a_R, rho_L, rho_R)

(* C10: in signal_speed_Einfeldt, on rho > 0 and any u and a, the           *)
(* quantity under the square root is >= 0, so the result is no NaN and      *)
(* S_R - S_L = 2 * d_bar >= 0.                                              *)
C10_EinfeldtRadicand ==
    est = "Einfeldt" =>
        /\ FGe(Einfeldt_rad, Zero)
        /\ ~IsNaN(S_L)
        /\ ~IsNaN(S_R)
        /\ FGe(FSub(S_R, S_L), Zero)
        /\ FMul(FSub(S_R, S_L), FSub(S_R, S_L)) = FMul(R(4, 1), Einfeldt_rad)

C10_Witness ==
    /\ est = "Einfeldt"
    /\ FLt(a_L, Zero)
    /\ a_R = Zero
    /\ u_L # u_R
    /\ rho_L # rho_R
    /\ FGt(FSub(S_R, S_L), Zero)

=============================================================================
